---- MODULE Spec2Model ----
(***************************************************************************)
(* HTTP session handling of the free-exercise-db MCP server.               *)
(*                                                                         *)
(* The model follows mcp/src/index.ts: one module-level Protocol Server,   *)
(* the session table `transports` declared in main(), and the route        *)
(* handler mcpHandler registered for POST, GET and DELETE on /mcp.  The     *)
(* handler is asynchronous; it is cut at its two awaits (server.connect    *)
(* and transport.handleRequest), so several requests can be in flight.     *)
(* What StreamableHTTPServerTransport and Server.connect do when the        *)
(* handler calls them is written out in HandleRequestDone and               *)
(* serverConnect.  Requests are well-formed protocol messages.              *)
(***************************************************************************)
EXTENDS Integers, FiniteSets, Sequences, TLC

\* Number of StreamableHTTPServerTransport objects the run may allocate.
MaxTransports == 2
\* Number of requests that may be in flight (suspended at an await) at once.
MaxInflight == 2

\* req.headers["mcp-session-id"] when the header is not sent (undefined).
NoHeader == "<undefined>"
\* Property names every plain object inherits from Object.prototype.
ProtoKeys == {"constructor"}
\* What transports[k] evaluates to for k \in ProtoKeys: a function object
\* that is not a transport.
ProtoMember == -1
\* "No transport": server._transport undefined, or no transport chosen yet.
None == 0

uuid(i) == "uuid-" \o ToString(i)
UUIDs == {uuid(i) : i \in 1..MaxTransports}

HttpMethods == {"POST", "GET", "DELETE"}
\* req.body?.method; "none" stands for a request without a JSON body.
BodyMethods == {"initialize", "tools/call", "none"}
SessionHeaders == {NoHeader, ""} \cup UUIDs \cup ProtoKeys

\* The only Protocol Server instance of the process.
server == "server"

VARIABLES
    transports,       \* the session table: session id -> transport
    tr,               \* the transport objects allocated so far
    generated,        \* session ids randomUUID() has returned
    serverTransport,  \* server._transport
    inflight,         \* per request slot: where the handler is suspended
    last,             \* the most recent step of a handler and its response
    config,           \* how the process was started, and the dataset file
    proc,             \* where startup stands, and the exit status
    exercises,        \* the module variable exercises (the dataset)
    call              \* the most recent protocol or HTTP call and its result

sessVars == <<transports, tr, generated, serverTransport, inflight, last>>
srvVars == <<config, proc, exercises, call>>
vars == <<transports, tr, generated, serverTransport, inflight, last,
          config, proc, exercises, call>>

EmptyTable == [k \in {} |-> None]
Put(f, k, v) == [x \in DOMAIN f \cup {k} |-> IF x = k THEN v ELSE f[x]]
Remove(f, k) == [x \in DOMAIN f \ {k} |-> f[x]]

\* JavaScript truthiness of a session id string.
Truthy(sid) == sid # NoHeader /\ sid # ""

\* Variant of Lookup: every known session resolves to the transport created
\* last, as when the handler keeps its transport in one shared variable.
LookupLatest(table, sid) ==
    IF sid \in DOMAIN table
    THEN CHOOSE t \in {table[k] : k \in DOMAIN table} :
            \A k \in DOMAIN table : table[k] <= t
    ELSE IF sid \in ProtoKeys THEN ProtoMember
    ELSE None

\* transports[sid] on a plain object: own property first, then the
\* prototype chain, else undefined.
Lookup(table, sid) ==
    IF sid \in DOMAIN table THEN table[sid]
    ELSE IF sid \in ProtoKeys THEN ProtoMember
    ELSE None

Idle == [pc |-> "idle", kind |-> "none", sid |-> NoHeader, t |-> None]

\* A handler step and the response it wrote, if any (status 0: none yet).
\* req names the request, <<method, body method>>, in a step of mcpHandler
\* and <<"dispatch", kind>> in a step that completes handleRequest.
Step(op, r, req, sid, t, status, code, rsid) ==
    [op |-> op, slot |-> r, req |-> req, sid |-> sid, t |-> t,
     status |-> status, code |-> code, rsid |-> rsid]

NoResponse ==
    Step("none", 0, <<"none", "none">>, NoHeader, None, 0, 0, NoHeader)

\* The requests a client can send to /mcp: HTTP method and req.body?.method.
Requests == {q \in HttpMethods \X BodyMethods : q[1] = "POST" => q[2] # "none"}

\* How StreamableHTTPServerTransport.handleRequest routes a request.
Kind(req) ==
    IF req[1] = "POST"
    THEN (IF req[2] = "initialize" THEN "init" ELSE "message")
    ELSE IF req[1] = "GET" THEN "get" ELSE "delete"

\* new StreamableHTTPServerTransport(...): no session id, not initialized.
NewTransport ==
    [sessionId |-> NoHeader, initialized |-> FALSE, closed |-> FALSE,
     server |-> "none"]

\* Variant of randomUUID: a generator that can return an id again.
randomUUIDRepeats(gen) == UUIDs

\* sessionIdGenerator: randomUUID() returns an id it has not returned before.
randomUUID(gen) == UUIDs \ gen

\* Variant of onsessioninitialized: the callback only logs.
onsessioninitializedNotStored(table, sid, t) == table

\* onsessioninitialized: transports[sid] = transport.
onsessioninitialized(table, sid, t) == Put(table, sid, t)

\* Variant of onclose: the callback only logs.
oncloseKeepsEntry(table, trs, t) == table

\* Variant of onclose: removal by position without the presence check, as
\* in list.splice(list.indexOf(x), 1), which removes another entry when x is
\* absent.
oncloseSplice(table, trs, t) ==
    LET sid == trs[t].sessionId
    IN  IF sid \in DOMAIN table THEN Remove(table, sid)
        ELSE IF DOMAIN table = {} THEN table
        ELSE Remove(table, CHOOSE k \in DOMAIN table : TRUE)

\* transport.onclose: delete transports[sid] when sid is set and present.
onclose(table, trs, t) ==
    LET sid == trs[t].sessionId
    IN  IF Truthy(sid) /\ Lookup(table, sid) # None
        THEN Remove(table, sid)
        ELSE table

\* Variant of catchBlock: the failed request's session is dropped.
catchBlockDropsSession(table, sid, headersSent) ==
    [table |-> Remove(table, sid), status |-> IF headersSent THEN 0 ELSE 500]

\* The catch block of mcpHandler, entered by a request that carried sid: it
\* logs and answers, the table is not touched.  Yields the table after the
\* block and the status it sends (0: nothing is sent).
catchBlock(table, sid, headersSent) ==
    [table |-> table, status |-> IF headersSent THEN 0 ELSE 500]

----------------------------------------------------------------------------
(* The dataset and the tool and resource handlers.  A string that the code *)
(* searches or parses (id, name, instruction line, query, URI) is a        *)
(* sequence of one-character strings; the other fields are compared as a   *)
(* whole and stay plain strings.                                           *)

\* Number of records in the dataset file.
MaxRecords == 2

\* undefined, for an argument that is not supplied.
Undefined == "<undefined>"
\* JSON null, for a record field without a value.
Null == "<null>"

\* Records the dataset file may hold.
PushUp ==
    [id |-> <<"a">>, name |-> <<"P", "u">>, force |-> "push",
     level |-> "beginner", mechanic |-> "compound", equipment |-> Null,
     primaryMuscles |-> <<"chest", "triceps">>,
     secondaryMuscles |-> <<"shoulders">>,
     instructions |-> << <<"g", "o">>, <<"u", "p">> >>,
     category |-> "strength", images |-> <<>>]
Squat ==
    [id |-> <<"b">>, name |-> <<"s", "q">>, force |-> "push",
     level |-> "expert", mechanic |-> "compound", equipment |-> "barbell",
     primaryMuscles |-> <<"quadriceps">>,
     secondaryMuscles |-> <<"chest">>,
     instructions |-> << <<"U", "p", "s">> >>,
     category |-> "strength", images |-> <<>>]
Run ==
    [id |-> <<"a", "/", "b">>, name |-> <<"q", "S">>, force |-> Null,
     level |-> "beginner", mechanic |-> Null, equipment |-> Null,
     primaryMuscles |-> <<"quadriceps", "chest">>,
     secondaryMuscles |-> <<>>,
     instructions |-> <<>>,
     category |-> "cardio", images |-> <<>>]
RecordPool == {PushUp, Squat, Run}

RECURSIVE SeqsUpTo(_, _)
SeqsUpTo(S, n) ==
    IF n = 0 THEN {<<>>}
    ELSE LET shorter == SeqsUpTo(S, n - 1)
         IN  shorter \cup {Append(q, x) : q \in shorter, x \in S}

\* The arrays a well-formed dataset file may parse to.
Datasets == SeqsUpTo(RecordPool, MaxRecords)

\* String.prototype.toLowerCase, one character.
LowerChar(c) ==
    CASE c = "P" -> "p"
      [] c = "U" -> "u"
      [] c = "S" -> "s"
      [] OTHER -> c
toLowerCase(str) == [i \in 1..Len(str) |-> LowerChar(str[i])]

\* String.prototype.includes.
includes(str, q) ==
    \E i \in 0..(Len(str) - Len(q)) : SubSeq(str, i + 1, i + Len(q)) = q

\* Array.prototype.includes for a list of muscles.
Has(list, m) == \E i \in 1..Len(list) : list[i] = m

\* results.map((e) => ({ id: e.id, name: e.name }))
Summary(recs) == [i \in 1..Len(recs) |-> [id |-> recs[i].id, name |-> recs[i].name]]

\* What a handler hands back: a result (content, isError) or a throw.
Result(content) == [kind |-> "result", isError |-> FALSE, content |-> content]
\* content: the text `Exercise with ID ${id} not found.`
ErrorResult(id) ==
    [kind |-> "result", isError |-> TRUE, content |-> <<[notFound |-> id]>>]
Throws == [kind |-> "throw", isError |-> FALSE, content |-> <<>>]

\* if (filters.f) filtered = filtered.filter((e) => e.f === filters.f)
FilterBy(recs, f, value) ==
    IF Truthy(value) THEN SelectSeq(recs, LAMBDA e : e[f] = value) ELSE recs

\* The list_exercises handler.  Without an arguments object the read of
\* filters.category throws.
list_exercises(ex, hasArgs, args) ==
    IF ~hasArgs THEN Throws
    ELSE LET f1 == FilterBy(ex, "category", args.category)
             f2 == FilterBy(f1, "equipment", args.equipment)
             f3 == FilterBy(f2, "level", args.level)
             f4 == FilterBy(f3, "force", args.force)
             f5 == FilterBy(f4, "mechanic", args.mechanic)
         IN  Result(Summary(f5))

\* exercises.find((e) => e.id === id): index of the first match, 0 if none.
find(ex, id) ==
    IF \E i \in 1..Len(ex) : ex[i].id = id
    THEN CHOOSE i \in 1..Len(ex) :
            ex[i].id = id /\ \A j \in 1..(i - 1) : ex[j].id # id
    ELSE 0

\* Variant of get_exercise: an unknown id is thrown, as the resource does.
get_exerciseThrows(ex, id) ==
    LET i == find(ex, id)
    IN  IF i = 0 THEN Throws ELSE Result(<<ex[i]>>)

\* The get_exercise handler.
get_exercise(ex, id) ==
    LET i == find(ex, id)
    IN  IF i = 0 THEN ErrorResult(id) ELSE Result(<<ex[i]>>)

\* Variant of search_exercises: the query is not lower-cased.
search_exercisesRawQuery(ex, query) ==
    LET results == SelectSeq(ex, LAMBDA e :
            \/ includes(toLowerCase(e.name), query)
            \/ \E k \in 1..Len(e.instructions) :
                  includes(toLowerCase(e.instructions[k]), query))
    IN  Result(Summary(results))

\* The search_exercises handler.
search_exercises(ex, query) ==
    LET lowerQuery == toLowerCase(query)
        results == SelectSeq(ex, LAMBDA e :
            \/ includes(toLowerCase(e.name), lowerQuery)
            \/ \E k \in 1..Len(e.instructions) :
                  includes(toLowerCase(e.instructions[k]), lowerQuery))
    IN  Result(Summary(results))

\* Variant of search_by_muscles: some() in place of every().
search_by_musclesSome(ex, primaryMuscles, secondaryMuscles) ==
    LET results == SelectSeq(ex, LAMBDA e :
            LET matchesPrimary ==
                    IF primaryMuscles.given
                    THEN \E k \in 1..Len(primaryMuscles.list) :
                            Has(e.primaryMuscles, primaryMuscles.list[k])
                    ELSE TRUE
                matchesSecondary ==
                    IF secondaryMuscles.given
                    THEN \E k \in 1..Len(secondaryMuscles.list) :
                            Has(e.secondaryMuscles, secondaryMuscles.list[k])
                    ELSE TRUE
            IN  matchesPrimary /\ matchesSecondary)
    IN  Result(Summary(results))

\* The search_by_muscles handler.  A list is [given, list]; an array that
\* is given is truthy even when empty.
search_by_muscles(ex, primaryMuscles, secondaryMuscles) ==
    LET results == SelectSeq(ex, LAMBDA e :
            LET matchesPrimary ==
                    IF primaryMuscles.given
                    THEN \A k \in 1..Len(primaryMuscles.list) :
                            Has(e.primaryMuscles, primaryMuscles.list[k])
                    ELSE TRUE
                matchesSecondary ==
                    IF secondaryMuscles.given
                    THEN \A k \in 1..Len(secondaryMuscles.list) :
                            Has(e.secondaryMuscles, secondaryMuscles.list[k])
                    ELSE TRUE
            IN  matchesPrimary /\ matchesSecondary)
    IN  Result(Summary(results))

ListUri ==
    <<"e", "x", "e", "r", "c", "i", "s", "e", "s", ":", "/", "/",
      "l", "i", "s", "t">>
ExercisePrefix == <<"e", "x", "e", "r", "c", "i", "s", "e", ":", "/", "/">>

\* uri.match(/^exercise:\/\/([^/]+)$/): the captured id, wrapped, or <<>>
\* when the URI does not match.
exerciseMatch(uri) ==
    LET n == Len(ExercisePrefix)
        rest == SubSeq(uri, n + 1, Len(uri))
    IN  IF /\ Len(uri) > n
           /\ SubSeq(uri, 1, n) = ExercisePrefix
           /\ \A i \in 1..Len(rest) : rest[i] # "/"
        THEN <<rest>>
        ELSE <<>>

\* The ReadResource handler.
ReadResource(ex, uri) ==
    IF uri = ListUri THEN Result(Summary(ex))
    ELSE LET m == exerciseMatch(uri)
             i == IF m = <<>> THEN 0 ELSE find(ex, m[1])
         IN  IF i = 0 THEN Throws ELSE Result(<<ex[i]>>)

----------------------------------------------------------------------------
(* Startup: loadData, then the choice of the transport.  index.ts (main)   *)
(* and cli.ts (startServer of server.ts) are the two entry points.         *)

DatasetFiles ==
    {[kind |-> "missing", data |-> <<>>], [kind |-> "malformed", data |-> <<>>]}
    \cup {[kind |-> "ok", data |-> d] : d \in Datasets}

\* entry: the script that was started; http: argv has --http;
\* argTransport: the value of --transport=; envTransport: TRANSPORT in the
\* environment; file: the dataset file.
Configs ==
    [entry : {"index", "cli"}, http : BOOLEAN,
     argTransport : {Undefined, "stdio", "http"},
     envTransport : {Undefined, "stdio", "http"},
     file : DatasetFiles]

\* index.ts started with --http on a well-formed dataset file.
HttpConfig ==
    [entry |-> "index", http |-> TRUE, argTransport |-> Undefined,
     envTransport |-> Undefined,
     file |-> [kind |-> "ok", data |-> <<PushUp, Squat>>]]

NoCall == [op |-> "none", arg |-> <<>>, result |-> Result(<<>>)]

\* Variant of loadData: a failed read is logged and startup goes on with the
\* empty dataset.
loadDataContinues(file) ==
    IF file.kind = "ok" THEN [ok |-> TRUE, data |-> file.data]
    ELSE [ok |-> TRUE, data |-> <<>>]

\* loadData: read and parse the file; on any failure process.exit(1).
loadData(file) ==
    IF file.kind = "ok" THEN [ok |-> TRUE, data |-> file.data]
    ELSE [ok |-> FALSE, data |-> <<>>]

\* main of index.ts: isHttp = process.argv.includes("--http").
mainTransport(cfg) == IF cfg.http THEN "http" ELSE "stdio"

\* cli.ts copies --transport= into process.env.TRANSPORT; startServer takes
\* stdio when TRANSPORT === "stdio" and HTTP otherwise.
startServerTransport(cfg) ==
    LET TRANSPORT == IF cfg.argTransport # Undefined THEN cfg.argTransport
                     ELSE cfg.envTransport
    IN  IF TRANSPORT = "stdio" THEN "stdio" ELSE "http"

transportType(cfg) ==
    IF cfg.entry = "index" THEN mainTransport(cfg) ELSE startServerTransport(cfg)

\* The routes of the HTTP application besides /mcp, as the status a GET
\* gets: setupHttpTransport registers "/" and "/health", main of index.ts
\* registers /mcp only, and Express answers an unmatched path with 404.
getStatus(entry, path) ==
    IF entry = "cli" /\ path \in {"/", "/health"} THEN 200 ELSE 404

----------------------------------------------------------------------------
Init ==
    /\ transports = EmptyTable
    /\ tr = <<>>
    /\ generated = {}
    /\ serverTransport = None
    /\ inflight = [r \in 1..MaxInflight |-> Idle]
    /\ last = NoResponse
    /\ config = HttpConfig
    /\ proc = [pc |-> "http", exited |-> FALSE, status |-> 0]
    /\ exercises = HttpConfig.file.data
    /\ call = NoCall

\* if (sessionId && transports[sessionId]) transport = transports[sessionId]
\* followed by the call of transport.handleRequest, which suspends.
ReuseBranch(r, method, sid, body) ==
    LET found == Lookup(transports, sid)
    IN  IF found = ProtoMember
        THEN \* an inherited member has no handleRequest: TypeError, caught
             LET c == catchBlock(transports, sid, FALSE)
             IN  /\ transports' = c.table
                 /\ last' = Step("typeerror", r, <<method, body>>, sid, None,
                                 c.status, 0, NoHeader)
                 /\ UNCHANGED <<tr, generated, serverTransport, inflight>>
        ELSE /\ inflight' = [inflight EXCEPT ![r] =
                    [pc |-> "dispatching", kind |-> Kind(<<method, body>>),
                     sid |-> sid, t |-> found]]
             /\ last' = Step("reuse", r, <<method, body>>, sid, found, 0, 0,
                             NoHeader)
             /\ UNCHANGED <<transports, tr, generated, serverTransport>>

\* Variant of CreateBranch: the transport is stored in the table under an
\* id chosen by the handler before server.connect is called.
CreateBranchInsertsFirst(r, method, sid, body) ==
    LET t == Len(tr) + 1
    IN  /\ Len(tr) < MaxTransports
        /\ tr' = Append(tr, [NewTransport EXCEPT !.server = server])
        /\ transports' = Put(transports, uuid(t), t)
        /\ serverTransport' = t
        /\ inflight' = [inflight EXCEPT ![r] =
               [pc |-> "connecting", kind |-> Kind(<<method, body>>),
                sid |-> sid, t |-> t]]
        /\ last' = Step("create", r, <<method, body>>, sid, t, 0, 0, NoHeader)
        /\ UNCHANGED generated

\* else if (!sessionId && POST && initialize): new transport, onclose set,
\* await server.connect(transport).  Server.connect stores the transport in
\* server._transport and chains the transport's onclose to its own.
CreateBranch(r, method, sid, body) ==
    LET t == Len(tr) + 1
    IN  /\ Len(tr) < MaxTransports
        /\ tr' = Append(tr, [NewTransport EXCEPT !.server = server])
        /\ serverTransport' = t
        /\ inflight' = [inflight EXCEPT ![r] =
               [pc |-> "connecting", kind |-> Kind(<<method, body>>),
                sid |-> sid, t |-> t]]
        /\ last' = Step("create", r, <<method, body>>, sid, t, 0, 0, NoHeader)
        /\ UNCHANGED <<transports, generated>>

\* else: res.status(400).json({error: {code: -32000, ...}}); return
RejectBranch(r, method, sid, body) ==
    /\ last' = Step("reject", r, <<method, body>>, sid, None, 400, -32000,
                    NoHeader)
    /\ UNCHANGED <<transports, tr, generated, serverTransport, inflight>>

\* Variant of McpHandler: the create branch does not test !sessionId, so an
\* initialize request with an unknown session id starts a session.
McpHandlerCreatesForUnknown(r, method, sid, body) ==
    /\ inflight[r].pc = "idle"
    /\ IF Truthy(sid) /\ Lookup(transports, sid) # None
       THEN ReuseBranch(r, method, sid, body)
       ELSE IF method = "POST" /\ body = "initialize"
            THEN CreateBranch(r, method, sid, body)
            ELSE RejectBranch(r, method, sid, body)

\* mcpHandler up to its first await, for one incoming request.
McpHandler(r, method, sid, body) ==
    /\ inflight[r].pc = "idle"
    /\ IF Truthy(sid) /\ Lookup(transports, sid) # None
       THEN ReuseBranch(r, method, sid, body)
       ELSE IF ~Truthy(sid) /\ method = "POST" /\ body = "initialize"
            THEN CreateBranch(r, method, sid, body)
            ELSE RejectBranch(r, method, sid, body)

\* The step that ends an await of request slot r, and its response.
Done(op, r, status, code, rsid) ==
    Step(op, r, <<"dispatch", inflight[r].kind>>, inflight[r].sid,
         inflight[r].t, status, code, rsid)

\* await server.connect(transport) resolves; transport.handleRequest is
\* called with the initialize request.
ConnectResolved(r) ==
    /\ inflight[r].pc = "connecting"
    /\ inflight' = [inflight EXCEPT ![r].pc = "dispatching"]
    /\ last' = Done("connected", r, 0, 0, NoHeader)
    /\ UNCHANGED <<transports, tr, generated, serverTransport>>

\* The transport's own session check before a non-initialize request.
\* Yields the status it answers with, 200 when the request may proceed.
validateSession(trs, t, sid) ==
    IF ~trs[t].initialized THEN 400
    ELSE IF sid = NoHeader THEN 400
    ELSE IF sid # trs[t].sessionId THEN 404
    ELSE 200

\* handleRequest of an initialize request: a transport that is already
\* initialized refuses; otherwise it generates its session id, calls
\* onsessioninitialized and answers with the id in the mcp-session-id header.
DispatchInit(r) ==
    LET t == inflight[r].t
    IN  IF tr[t].initialized
        THEN /\ last' = Done("refused", r, 400, -32600, NoHeader)
             /\ UNCHANGED <<transports, tr, generated, serverTransport>>
        ELSE \E sid \in randomUUID(generated) :
                /\ generated' = generated \cup {sid}
                /\ tr' = [tr EXCEPT ![t].sessionId = sid, ![t].initialized = TRUE]
                /\ transports' = onsessioninitialized(transports, sid, t)
                /\ last' = Done("initialized", r, 200, 0, sid)
                /\ UNCHANGED serverTransport

\* handleRequest of a POST message or a GET: answered by the transport.
DispatchMessage(r) ==
    LET t == inflight[r].t
        v == validateSession(tr, t, inflight[r].sid)
    IN  /\ last' = IF v = 200
                   THEN Done("served", r, 200, 0, tr[t].sessionId)
                   ELSE Done("refused", r, v, -32000, NoHeader)
        /\ UNCHANGED <<transports, tr, generated, serverTransport>>

\* handleRequest of a DELETE: the transport closes itself, which runs
\* transport.onclose and then the Protocol Server's own close hook
\* (server._transport = undefined).
DispatchDelete(r) ==
    LET t == inflight[r].t
        v == validateSession(tr, t, inflight[r].sid)
    IN  IF v # 200
        THEN /\ last' = Done("refused", r, v, -32000, NoHeader)
             /\ UNCHANGED <<transports, tr, generated, serverTransport>>
        ELSE /\ transports' = onclose(transports, tr, t)
             /\ tr' = [tr EXCEPT ![t].closed = TRUE]
             /\ serverTransport' = IF tr[t].server = server THEN None
                                   ELSE serverTransport
             /\ last' = Done(IF tr[t].sessionId \in DOMAIN transports
                             THEN "closed" ELSE "closed-absent",
                             r, 200, 0, NoHeader)
             /\ UNCHANGED generated

\* await transport.handleRequest(req, res, req.body) completes normally.
HandleRequestDone(r) ==
    /\ inflight[r].pc = "dispatching"
    /\ inflight' = [inflight EXCEPT ![r] = Idle]
    /\ CASE inflight[r].kind = "init" -> DispatchInit(r)
         [] inflight[r].kind = "delete" -> DispatchDelete(r)
         [] OTHER -> DispatchMessage(r)

\* await transport.handleRequest(...) rejects: the catch block answers 500
\* unless the response head is already out.
HandleRequestThrows(r, headersSent) ==
    /\ inflight[r].pc = "dispatching"
    /\ inflight' = [inflight EXCEPT ![r] = Idle]
    /\ LET c == catchBlock(transports, inflight[r].sid, headersSent)
       IN  /\ transports' = c.table
           /\ last' = Done(IF headersSent THEN "caught-committed" ELSE "caught",
                           r, c.status, 0, NoHeader)
    /\ UNCHANGED <<tr, generated, serverTransport>>

Next ==
    \/ \E r \in 1..MaxInflight, q \in Requests, sid \in SessionHeaders :
            McpHandler(r, q[1], sid, q[2]) /\ UNCHANGED srvVars
    \/ \E r \in 1..MaxInflight : ConnectResolved(r) /\ UNCHANGED srvVars
    \/ \E r \in 1..MaxInflight : HandleRequestDone(r) /\ UNCHANGED srvVars
    \/ \E r \in 1..MaxInflight, headersSent \in BOOLEAN :
            HandleRequestThrows(r, headersSent) /\ UNCHANGED srvVars

Spec == Init /\ [][Next]_vars

----------------------------------------------------------------------------
(* The process from its start: startup, then protocol calls and GETs.      *)

ServerInit ==
    /\ transports = EmptyTable
    /\ tr = <<>>
    /\ generated = {}
    /\ serverTransport = None
    /\ inflight = [r \in 1..MaxInflight |-> Idle]
    /\ last = NoResponse
    /\ config \in Configs
    /\ proc = [pc |-> "start", exited |-> FALSE, status |-> 0]
    /\ exercises = <<>>
    /\ call = NoCall

\* await loadData() at the head of main and of startServer.
LoadData ==
    /\ proc.pc = "start"
    /\ LET l == loadData(config.file)
       IN  IF l.ok
           THEN /\ exercises' = l.data
                /\ proc' = [proc EXCEPT !.pc = "loaded"]
           ELSE /\ proc' = [pc |-> "exited", exited |-> TRUE, status |-> 1]
                /\ UNCHANGED exercises
    /\ UNCHANGED <<config, call>>

\* The transport is set up: server.connect(new StdioServerTransport()) or
\* app.listen(port, host).
StartTransport ==
    /\ proc.pc = "loaded"
    /\ proc' = [proc EXCEPT !.pc = transportType(config)]
    /\ UNCHANGED <<config, exercises, call>>

Serving == proc.pc \in {"stdio", "http"}

\* Arguments of list_exercises with at most MaxFilters fields supplied.
MaxFilters == 2
ListArgs ==
    {a \in [category : {Undefined, "", "strength", "cardio"},
            equipment : {Undefined, "barbell"},
            level : {Undefined, "beginner"},
            force : {Undefined, "push"},
            mechanic : {Undefined, "compound"}] :
        Cardinality({f \in DOMAIN a : a[f] # Undefined}) <= MaxFilters}
NoArgs ==
    [category |-> Undefined, equipment |-> Undefined, level |-> Undefined,
     force |-> Undefined, mechanic |-> Undefined]
Ids == {<<"a">>, <<"b">>, <<"a", "/", "b">>, <<"z">>}
Queries == {<<>>, <<"P", "U">>, <<"u", "p">>, <<"s">>, <<"Q", "s">>, <<"z">>}
MuscleLists ==
    {[given |-> FALSE, list |-> <<>>]}
    \cup {[given |-> TRUE, list |-> l] :
            l \in {<<>>, <<"chest">>, <<"chest", "triceps">>, <<"shoulders">>}}
Uris == {ListUri, <<"x">>} \cup {ExercisePrefix \o id : id \in Ids}

\* Variant of exercisesAfter: the handler assigns the array it has filtered
\* to exercises, so the dataset keeps only the records it returned.
exercisesAfterAssigned(ex, result) ==
    IF result.kind = "result" /\ ~result.isError
    THEN SelectSeq(ex, LAMBDA e :
            \E i \in 1..Len(result.content) : result.content[i].id = e.id)
    ELSE ex

\* The array exercises when a handler returns: find, filter, map, some,
\* every and includes build new values and leave their array as it was, and
\* the handlers assign only their locals (filtered, results, exercise).
exercisesAfter(ex, result) == ex

\* tools/call list_exercises
CallListExercises(hasArgs, args) ==
    /\ Serving
    /\ call' = [op |-> "list_exercises", arg |-> <<hasArgs, args>>,
                result |-> list_exercises(exercises, hasArgs, args)]
    /\ exercises' = exercisesAfter(exercises, call'.result)
    /\ UNCHANGED <<config, proc>>

\* tools/call get_exercise
CallGetExercise(id) ==
    /\ Serving
    /\ call' = [op |-> "get_exercise", arg |-> id,
                result |-> get_exercise(exercises, id)]
    /\ exercises' = exercisesAfter(exercises, call'.result)
    /\ UNCHANGED <<config, proc>>

\* tools/call search_exercises
CallSearchExercises(query) ==
    /\ Serving
    /\ call' = [op |-> "search_exercises", arg |-> query,
                result |-> search_exercises(exercises, query)]
    /\ exercises' = exercisesAfter(exercises, call'.result)
    /\ UNCHANGED <<config, proc>>

\* tools/call search_by_muscles
CallSearchByMuscles(primaryMuscles, secondaryMuscles) ==
    /\ Serving
    /\ call' = [op |-> "search_by_muscles",
                arg |-> <<primaryMuscles, secondaryMuscles>>,
                result |-> search_by_muscles(exercises, primaryMuscles,
                                             secondaryMuscles)]
    /\ exercises' = exercisesAfter(exercises, call'.result)
    /\ UNCHANGED <<config, proc>>

\* resources/read
CallReadResource(uri) ==
    /\ Serving
    /\ call' = [op |-> "resources/read", arg |-> uri,
                result |-> ReadResource(exercises, uri)]
    /\ exercises' = exercisesAfter(exercises, call'.result)
    /\ UNCHANGED <<config, proc>>

\* An HTTP GET of a path other than /mcp, with any mcp-session-id header.
HttpGet(path, sid) ==
    /\ proc.pc = "http"
    /\ call' = [op |-> "GET", arg |-> <<path, sid>>,
                result |-> [kind |-> "http",
                            status |-> getStatus(config.entry, path)]]
    /\ UNCHANGED <<config, proc, exercises>>

ServerNext ==
    \/ LoadData /\ UNCHANGED sessVars
    \/ StartTransport /\ UNCHANGED sessVars
    \/ \E hasArgs \in BOOLEAN, args \in ListArgs :
            /\ ~hasArgs => args = NoArgs
            /\ CallListExercises(hasArgs, args) /\ UNCHANGED sessVars
    \/ \E id \in Ids : CallGetExercise(id) /\ UNCHANGED sessVars
    \/ \E q \in Queries : CallSearchExercises(q) /\ UNCHANGED sessVars
    \/ \E p \in MuscleLists, q \in MuscleLists :
            CallSearchByMuscles(p, q) /\ UNCHANGED sessVars
    \/ \E uri \in Uris : CallReadResource(uri) /\ UNCHANGED sessVars
    \/ \E path \in {"/", "/health"}, sid \in SessionHeaders :
            HttpGet(path, sid) /\ UNCHANGED sessVars

ServerSpec == ServerInit /\ [][ServerNext]_vars

\* main and startServer begin with await loadData(), which Node runs to its
\* end once the script is started.
ServerLiveSpec == ServerSpec /\ WF_vars(LoadData /\ UNCHANGED sessVars)

----------------------------------------------------------------------------
Slots == 1..MaxInflight
Allocated == 1..Len(tr)
Live(t) == tr[t].initialized /\ ~tr[t].closed
\* Session ids whose transport has closed.
ClosedIds == {tr[t].sessionId : t \in {u \in Allocated : tr[u].closed}}
Keys == DOMAIN transports

\* A request slot whose suspended request entered through the create branch.
IsCreate(r) == inflight[r].kind = "init" /\ ~Truthy(inflight[r].sid)
\* Request slot r ends its await of handleRequest, normally or by a throw.
DispatchEnds(r) ==
    HandleRequestDone(r) \/ \E hs \in BOOLEAN : HandleRequestThrows(r, hs)

\* C1: a POST initialize without a session id takes the create branch with a
\* new transport, and when its dispatch completes the table has exactly one
\* more key, the earlier entries are as they were, the new key maps to the
\* new transport and is the session id the response carries.
C1_CreateAddsOneEntry ==
    [][ /\ \A r \in Slots, sid \in {NoHeader, ""} :
              McpHandler(r, "POST", sid, "initialize") =>
                  /\ inflight'[r].pc = "connecting"
                  /\ inflight'[r].t = Len(tr) + 1
                  /\ Len(tr') = Len(tr) + 1
        /\ \A r \in Slots :
              IsCreate(r) /\ HandleRequestDone(r) =>
                  \E k \in DOMAIN transports' \ Keys :
                      /\ DOMAIN transports' = Keys \cup {k}
                      /\ Cardinality(DOMAIN transports') = Cardinality(Keys) + 1
                      /\ \A s \in Keys : transports'[s] = transports[s]
                      /\ transports'[k] = inflight[r].t
                      /\ last'.status = 200
                      /\ last'.rsid = k
      ]_vars

\* A create has completed on a table that already held a session.
C1_Witness ==
    /\ last.op = "initialized"
    /\ ~Truthy(last.sid)
    /\ last.rsid \in Keys
    /\ transports[last.rsid] = last.t
    /\ Cardinality(Keys) = 2

\* C2: a request whose session id is a key of the table is dispatched through
\* the transport stored under that key, and neither taking the branch nor
\* finishing the dispatch allocates a transport, connects a server or adds a
\* key.
C2_ReuseDispatchesStored ==
    [][ /\ \A r \in Slots, q \in Requests, sid \in Keys :
              McpHandler(r, q[1], sid, q[2]) =>
                  /\ inflight'[r].pc = "dispatching"
                  /\ inflight'[r].t = transports[sid]
                  /\ tr' = tr
                  /\ transports' = transports
                  /\ serverTransport' = serverTransport
        /\ \A r \in Slots :
              Truthy(inflight[r].sid) /\ DispatchEnds(r) =>
                  /\ Len(tr') = Len(tr)
                  /\ DOMAIN transports' \subseteq Keys
                  /\ \A t \in Allocated : tr'[t].server = tr[t].server
      ]_vars

\* A request of the older of two sessions has been served by its transport.
C2_Witness ==
    /\ last.op = "served"
    /\ last.sid \in Keys
    /\ transports[last.sid] = last.t
    /\ \E k \in Keys : transports[k] > last.t

\* C3: a request with a non-empty session id that is not a key of the table,
\* or with no session id and not a POST initialize, is answered 400 with
\* error code -32000, is not dispatched and leaves the table as it was.
C3_RejectUnknownOrMissing ==
    [][ \A r \in Slots, q \in Requests, sid \in SessionHeaders :
            /\ \/ Truthy(sid) /\ sid \notin Keys
               \/ ~Truthy(sid) /\ q # <<"POST", "initialize">>
            /\ McpHandler(r, q[1], sid, q[2])
            => /\ last'.status = 400
               /\ last'.code = -32000
               /\ inflight' = inflight
               /\ transports' = transports
      ]_vars

\* C4: a session id whose transport has closed is never a key of the table
\* again, and every request that carries it is rejected (400, -32000) without
\* being dispatched.
C4_ClosedIsTerminal ==
    [][ /\ \A s \in ClosedIds : s \notin Keys /\ s \notin DOMAIN transports'
        /\ \A r \in Slots, q \in Requests, sid \in ClosedIds :
              McpHandler(r, q[1], sid, q[2]) =>
                  /\ last'.op = "reject"
                  /\ last'.status = 400
                  /\ last'.code = -32000
                  /\ inflight' = inflight
                  /\ transports' = transports
      ]_vars

\* An initialize request reusing a closed session's id has been rejected
\* while another session is live.
C4_Witness ==
    /\ last.op = "reject"
    /\ last.sid \in ClosedIds
    /\ last.req = <<"POST", "initialize">>
    /\ Keys # {}

\* Every table entry is a transport that has not closed, stored under its own
\* session id.
C5_EntriesAreOpen ==
    \A s \in Keys :
        /\ transports[s] \in Allocated
        /\ ~tr[transports[s]].closed
        /\ tr[transports[s]].sessionId = s

\* C5: when a transport closes, its session id is not a key of the table
\* afterwards; and in every state each entry is an open transport stored
\* under its own session id.
C5_CloseRemovesEntry ==
    /\ []C5_EntriesAreOpen
    /\ [][ \A t \in Allocated :
              ~tr[t].closed /\ tr'[t].closed =>
                  /\ tr[t].sessionId \in Keys
                  /\ tr[t].sessionId \notin DOMAIN transports'
         ]_vars

\* One of two sessions has been closed and the other is still in the table.
C5_Witness ==
    /\ last.op = "closed"
    /\ tr[last.t].closed
    /\ last.sid \notin Keys
    /\ Keys # {}

\* C6: a close signal of a transport whose session id is not a key of the
\* table leaves the table as it was and the request is answered normally.
C6_CloseIsIdempotent ==
    [][ \A r \in Slots :
            /\ inflight[r].pc = "dispatching"
            /\ inflight[r].kind = "delete"
            /\ tr[inflight[r].t].sessionId \notin Keys
            /\ HandleRequestDone(r)
            => /\ transports' = transports
               /\ last'.status = 200
      ]_vars

\* A second close of a session has been handled while another session is in
\* the table.
C6_Witness ==
    /\ last.op = "closed-absent"
    /\ last.status = 200
    /\ tr[last.t].closed
    /\ Keys # {}

\* No two live transports have the same session id.
C7_LiveIdsDistinct ==
    \A t1, t2 \in Allocated :
        t1 # t2 /\ Live(t1) /\ Live(t2) => tr[t1].sessionId # tr[t2].sessionId

\* C7: no two live transports share a session id, and no step stores a
\* transport under a key that is already present.
C7_OneLiveSessionPerId ==
    /\ []C7_LiveIdsDistinct
    /\ [][ \A s \in Keys \cap DOMAIN transports' : transports'[s] = transports[s]
         ]_vars

\* Two sessions are live at once, the second just registered.
C7_Witness ==
    /\ Cardinality(Keys) = 2
    /\ \A t \in Allocated : Live(t)
    /\ last.op = "initialized"

\* C8: no Protocol Server instance is connected to two transports that are
\* both open.
C8_OneServerOnePeer ==
    \A t1, t2 \in Allocated :
        /\ t1 # t2
        /\ ~tr[t1].closed /\ ~tr[t2].closed
        /\ tr[t1].server # "none"
        => tr[t1].server # tr[t2].server

\* C9: when handleRequest throws, the catch block answers 500 if the head
\* is not out and nothing otherwise, and the step changes neither the table
\* nor any transport.
C9_DispatchFailureKeepsSession ==
    [][ \A r \in Slots, hs \in BOOLEAN :
            HandleRequestThrows(r, hs) =>
                /\ last'.status = IF hs THEN 0 ELSE 500
                /\ transports' = transports
                /\ tr' = tr
                /\ serverTransport' = serverTransport
      ]_vars

\* A request of a session has failed with 500 and the session is still in
\* the table under an open transport.
C9_Witness ==
    /\ last.op = "caught"
    /\ last.status = 500
    /\ last.sid \in Keys
    /\ transports[last.sid] = last.t
    /\ Live(last.t)

\* C10 as stated: an initialize request with a non-empty session id that is
\* not a key of the table takes the create branch with a new transport.
C10_CreateForUnknownId ==
    [][ \A r \in Slots, sid \in SessionHeaders :
            /\ Truthy(sid) /\ sid \notin Keys
            /\ McpHandler(r, "POST", sid, "initialize")
            => /\ inflight'[r].pc = "connecting"
               /\ Len(tr') = Len(tr) + 1
      ]_vars

\* C10 amended: an initialize request with a non-empty session id that is
\* not a key of the table never starts a session; it is answered with an
\* error status, no transport is allocated, nothing is dispatched and the
\* table is unchanged.
C10_UnknownIdNeverCreates ==
    [][ \A r \in Slots, sid \in SessionHeaders :
            /\ Truthy(sid) /\ sid \notin Keys
            /\ McpHandler(r, "POST", sid, "initialize")
            => /\ last'.status \in {400, 500}
               /\ tr' = tr
               /\ inflight' = inflight
               /\ transports' = transports
      ]_vars

\* An initialize request with an id that was never issued has been rejected.
C10_Witness ==
    /\ last.op = "reject"
    /\ last.req = <<"POST", "initialize">>
    /\ Truthy(last.sid)
    /\ last.sid \notin generated
    /\ last.status = 400

----------------------------------------------------------------------------
FilterFields == {"category", "equipment", "level", "force", "mechanic"}
Range(list) == {list[i] : i \in 1..Len(list)}

\* The records list_exercises is to retain: every supplied field equals the
\* record's field.
Retained(ex, hasArgs, args) ==
    SelectSeq(ex, LAMBDA e :
        \A f \in FilterFields :
            (hasArgs /\ args[f] # Undefined) => e[f] = args[f])

\* C11: list_exercises returns, in dataset order, the {id, name} of exactly
\* the records whose fields equal every supplied filter field; a call
\* without an arguments object returns every record, and a supplied value
\* that no record has, the empty string included, returns the empty array.
C11_ListExercisesExact ==
    call.op = "list_exercises" =>
        call.result =
            Result(Summary(Retained(exercises, call.arg[1], call.arg[2])))

\* C12: get_exercise returns a result for every id and never throws: the
\* first record with that id, in full, when the dataset has one, and an
\* error-flagged result with a message otherwise.
C12_GetExerciseNeverThrows ==
    call.op = "get_exercise" =>
        LET id == call.arg
            present == \E i \in 1..Len(exercises) : exercises[i].id = id
        IN  /\ call.result.kind = "result"
            /\ call.result.isError = ~present
            /\ Len(call.result.content) = 1
            /\ present =>
                 /\ call.result.content[1].id = id
                 /\ \E i \in 1..Len(exercises) :
                      exercises[i] = call.result.content[1]

\* get_exercise was called with an id that a non-empty dataset lacks.
C12_Witness ==
    /\ call.op = "get_exercise"
    /\ call.arg = <<"z">>
    /\ call.result.isError
    /\ Len(exercises) = 2

\* str contains q at some offset when letters are compared without case.
ContainsIgnoreCase(str, q) ==
    \E off \in 0..(Len(str) - Len(q)) :
        \A j \in 1..Len(q) : LowerChar(str[off + j]) = LowerChar(q[j])

C14_SearchByMusclesSuperset ==
    call.op = "search_by_muscles" =>
        LET p == call.arg[1]
            q == call.arg[2]
        IN  /\ call.result =
                 Result(Summary(SelectSeq(exercises, LAMBDA e :
                    /\ p.given => Range(p.list) \subseteq Range(e.primaryMuscles)
                    /\ q.given => Range(q.list) \subseteq Range(e.secondaryMuscles))))
            /\ (~p.given \/ p.list = <<>>) /\ (~q.given \/ q.list = <<>>)
                 => call.result.content = Summary(exercises)

\* A two-muscle primary list kept the record that has both and dropped the
\* record that has one of them.
C14_Witness ==
    /\ call.op = "search_by_muscles"
    /\ call.arg[1] = [given |-> TRUE, list |-> <<"chest", "triceps">>]
    /\ ~call.arg[2].given
    /\ exercises = <<Run, PushUp>>
    /\ call.result.content = Summary(<<PushUp>>)

\* C15: reading exercise://{id} throws when the dataset lacks the id, where
\* get_exercise returns an error-flagged result; when the dataset has the
\* id both return the same full record.
C15_NotFoundAsymmetry ==
    \A id \in Ids :
        call.op = "resources/read" /\ call.arg = ExercisePrefix \o id =>
            LET tool == get_exercise(exercises, id)
            IN  IF \E i \in 1..Len(exercises) : exercises[i].id = id
                THEN call.result.kind = "result" /\ call.result = tool
                ELSE /\ call.result.kind = "throw"
                     /\ tool.kind = "result" /\ tool.isError

\* HTTP was asked for: --http for index.ts, --transport=http or
\* TRANSPORT=http for cli.ts.
SelectsHttp(cfg) ==
    IF cfg.entry = "index" THEN cfg.http
    ELSE IF cfg.argTransport # Undefined THEN cfg.argTransport = "http"
         ELSE cfg.envTransport = "http"

\* C16: a server that is serving has exactly one transport; it is HTTP only
\* when HTTP was asked for at startup, and stdio when nothing was asked for.
C16_StdioUnlessHttpSelected ==
    Serving => (proc.pc = "http" <=> SelectsHttp(config))

BadFile == config.file.kind # "ok"

\* Nothing is served before the dataset is loaded, and nothing at all from
\* a file that cannot be read or parsed.
C17_LoadedBeforeServing ==
    /\ Serving \/ call # NoCall =>
         ~BadFile /\ exercises = config.file.data /\ ~proc.exited
    /\ BadFile => proc.pc \in {"start", "exited"} /\ call = NoCall
    /\ proc.exited => BadFile /\ proc.status # 0 /\ proc.pc = "exited"

\* C17: the dataset is fully loaded before the transport is connected or the
\* listener opened; when the file is missing or malformed the process
\* terminates with a non-zero status and never accepts a request.
C17_LoadThenServeOrExit ==
    /\ []C17_LoadedBeforeServing
    /\ BadFile ~> (proc.exited /\ proc.status # 0)
    /\ [](proc.exited => [](proc.exited /\ call = NoCall))

\* A malformed file ended the process with status 1 before any request.
C17_Witness ==
    /\ config.file.kind = "malformed"
    /\ proc.exited /\ proc.status = 1
    /\ call = NoCall /\ exercises = <<>>

\* C18: GET /health is answered 200 whenever the HTTP listener is up,
\* whatever mcp-session-id header it carries, and changes no session.
C18_HealthAlways200 ==
    call.op = "GET" /\ call.arg[1] = "/health" =>
        call.result.status = 200 /\ transports = EmptyTable

----------------------------------------------------------------------------
\* The transports that are stored in the table.
Stored == {transports[k] : k \in Keys}

\* C19 as stated: from the moment Create awaits server.connect until its
\* dispatch has completed, the table has the entry of the new transport.
C19_InsertBeforeConnect ==
    \A r \in Slots :
        IsCreate(r) /\ inflight[r].pc \in {"connecting", "dispatching"} =>
            inflight[r].t \in Stored

\* A stored transport is connected to the server and has handled its
\* initialize request.
C19_StoredAreConnected ==
    \A t \in Stored : tr[t].server = server /\ tr[t].initialized

\* C19: Create connects the Protocol Server to the new transport, then
\* dispatches the initialize request, and the entry is inserted while that
\* dispatch runs: the table is unchanged and lacks the transport when
\* connect is called and when it resolves, and gains it when the dispatch
\* completes.
C19_ConnectDispatchInsert ==
    /\ []C19_StoredAreConnected
    /\ [][ \A r \in Slots :
             /\ inflight[r].pc = "idle" /\ inflight'[r].pc = "connecting" =>
                  /\ tr'[inflight'[r].t].server = server
                  /\ ~tr'[inflight'[r].t].initialized
                  /\ transports' = transports
                  /\ inflight'[r].t \notin Stored
             /\ IsCreate(r) /\ ConnectResolved(r) =>
                  /\ inflight'[r].pc = "dispatching"
                  /\ transports' = transports
                  /\ inflight[r].t \notin Stored
             /\ IsCreate(r) /\ HandleRequestDone(r) =>
                  /\ tr[inflight[r].t].server = server
                  /\ inflight[r].t \notin Stored
                  /\ \E k \in DOMAIN transports' \ Keys :
                        transports'[k] = inflight[r].t
         ]_vars

\* A create is dispatching on a connected transport that the table, which
\* holds another session, does not have yet.
C19_Witness ==
    \E r \in Slots :
        /\ IsCreate(r)
        /\ inflight[r].pc = "dispatching"
        /\ tr[inflight[r].t].server = server
        /\ inflight[r].t \notin Stored
        /\ Keys # {}

\* C20: the table changes only when a create's dispatch completes, by one
\* new key, and when a delete closes a transport, by the removal of that
\* transport's own key with every other entry as it was; the branches of
\* mcpHandler, a refused dispatch and a dispatch that throws leave it as it
\* was.
C20_OnlyCreateAndCloseMutate ==
    [][ /\ transports' # transports =>
              \E r \in Slots :
                  /\ HandleRequestDone(r)
                  /\ \/ /\ IsCreate(r)
                        /\ \E k \in DOMAIN transports' \ Keys :
                              /\ DOMAIN transports' = Keys \cup {k}
                              /\ transports'[k] = inflight[r].t
                              /\ \A s \in Keys : transports'[s] = transports[s]
                     \/ /\ inflight[r].kind = "delete"
                        /\ LET k == tr[inflight[r].t].sessionId
                           IN  /\ k \in Keys
                               /\ transports[k] = inflight[r].t
                               /\ DOMAIN transports' = Keys \ {k}
                               /\ \A s \in Keys \ {k} :
                                     transports'[s] = transports[s]
        /\ \A r \in Slots, q \in Requests, sid \in SessionHeaders :
              McpHandler(r, q[1], sid, q[2]) => transports' = transports
        /\ \A r \in Slots :
              (\E hs \in BOOLEAN : HandleRequestThrows(r, hs))
                  => transports' = transports
        /\ last'.op \in {"refused", "served", "closed-absent"} =>
              transports' = transports
      ]_vars

\* A delete closed one of two sessions and the other entry is still there.
C20_Witness ==
    /\ last.op = "closed"
    /\ Cardinality(Keys) = 1
    /\ \E k \in Keys : Live(transports[k]) /\ transports[k] # last.t
    /\ last.sid \in generated

----------------------------------------------------------------------------
Loaded == proc.pc \in {"loaded", "stdio", "http"}

\* C21: once loaded, the dataset has the records of the file in the order of
\* the file, and no tool call, resource read or HTTP request changes it.
C21_DatasetImmutable ==
    /\ [](Loaded => exercises = config.file.data)
    /\ [][Loaded => exercises' = exercises]_vars

\* A filtering call on a two-record dataset returned one record and the
\* dataset still has both.
C21_Witness ==
    /\ call.op \in {"list_exercises", "search_exercises", "search_by_muscles"}
    /\ call.result.kind = "result"
    /\ Len(call.result.content) = 1
    /\ Len(exercises) = 2
    /\ exercises = config.file.data
====
